---------------------------- MODULE Spec2Model ----------------------------
(***************************************************************************)
(* The propagation core of src/core/derivation.ts: the stale/ready         *)
(* counting protocol (notifyDependencyStale, notifyDependencyReady), the   *)
(* dependency tracker (trackDerivedFunction, bindDependencies), the cycle   *)
(* detector (findCycle) and the evaluation context (isComputingDerivation, *)
(* checkIfStateModificationsAreAllowed).                                   *)
(*                                                                         *)
(* The program is single threaded and its handlers call each other         *)
(* synchronously, so the model keeps an explicit call stack: every step    *)
(* executes the next piece of the function on top of `stack`.  A failing   *)
(* invariant(...) throws; nothing in the source catches, so a throw        *)
(* unwinds the whole call stack, and what was written before it stays.     *)
(***************************************************************************)
EXTENDS Integers, Sequences, FiniteSets, TLC

\* ------------------------------------------------------------------ nodes
Leaves == {"A", "B"}
Derivs == {"M1", "M2", "D"}
Nodes  == Leaves \cup Derivs

\* ----------------------------------------------------------------- bounds
\* longest list of sources one run of a body reads
MaxReads == 2
\* a direct notifyDependencyStale is issued only while both counters of every
\* derivation are below this, a direct notifyDependencyReady(d, true) only
\* while d's change count is
MaxStale == 2
\* a direct run is issued only while every observers list is shorter than
\* this, a direct notifyDependencyStale only while every staleObservers list is
MaxObs == 2

VARIABLES
    observing,             \* derivation -> its observing list
    observers,             \* node -> its observers list
    staleObservers,        \* node -> observers that were sent stale, not yet ready
    dependencyStaleCount,  \* derivation -> number
    dependencyChangeCount, \* derivation -> number
    derivationStack,       \* globalState.derivationStack
    stack,                 \* the call stack, innermost frame last
    ret,                   \* value returned by the last onDependenciesReady
    err,                   \* "none", or the failure that ended the last call
    log,                   \* events of the current wave / the current call
    wave,                  \* sources mid-change, sources done in this wave
    pre,                   \* edges as they were when the current call began
    result,                \* outcome of the last stand-alone findCycle call
    allowStateChanges      \* globalState.allowStateChanges

vars == <<observing, observers, staleObservers, dependencyStaleCount,
          dependencyChangeCount, derivationStack, stack, ret, err, log,
          wave, pre, result, allowStateChanges>>

\* ---------------------------------------------------------------- helpers
Elems(s) == {s[i] : i \in 1..Len(s)}

NoDup(s) == \A i, j \in 1..Len(s) : i # j => s[i] # s[j]

\* duplicate-free lists over S of length at most n
ListsUpTo(S, n) == {s \in UNION {[1..k -> S] : k \in 0..n} : NoDup(s)}

\* the lists that hold exactly the members of S, once each
PermsOf(S) == {s \in [1..Cardinality(S) -> S] : Elems(s) = S}

Frame(fn, pc, d, b, xs, rm, i) ==
    [fn |-> fn, pc |-> pc, d |-> d, b |-> b, xs |-> xs, rm |-> rm, i |-> i]

Event(ev, d, b, s, c, xs) ==
    [ev |-> ev, d |-> d, b |-> b, s |-> s, c |-> c, xs |-> xs]

Busy == stack # <<>>
Top == stack[Len(stack)]
Pop == SubSeq(stack, 1, Len(stack) - 1)
Replace(f) == [stack EXCEPT ![Len(stack)] = f]

\* a failing invariant(...): the exception unwinds every frame; the fields
\* keep what was written before the throw
Throw(e) ==
    /\ err' = e
    /\ stack' = <<>>


\* ------------------------------------------------ collaborators (utils.ts,
\* observable.ts): not part of src/, modelled from the specification

\* quickDiff(current, base): [added, removed] as plain set differences
quickDiffAdded(current, base) ==
    SelectSeq(current, LAMBDA x : x \notin Elems(base))

quickDiffRemoved(current, base) ==
    SelectSeq(base, LAMBDA x : x \notin Elems(current))

\* addObserver(source, derivation): the derivation is appended
addObserver(obs, src, d) == [obs EXCEPT ![src] = Append(@, d)]

RemoveFirst(s, x) ==
    IF x \notin Elems(s) THEN s
    ELSE LET k == CHOOSE i \in 1..Len(s) :
                     s[i] = x /\ \A j \in 1..(i - 1) : s[j] # x
         IN  SubSeq(s, 1, k - 1) \o SubSeq(s, k + 1, Len(s))

\* removeObserver(source, derivation): one entry of the derivation is removed
removeObserver(obs, src, d) == [obs EXCEPT ![src] = RemoveFirst(@, d)]

\* --------------------------------------------------------------- findCycle
\* findCycle(needle, node), lines 97-107.  The recursion keeps no visited
\* set, so on a graph with a cycle that holds no self-loop it never returns:
\* `path` holds the nodes whose call is still open, and entering one of them
\* again repeats the same calls for ever (the engine ends that with a
\* RangeError for the exhausted call stack): outcome "overflow".
RECURSIVE findCycleFrom(_, _, _, _)
findCycleFrom(obsOf, needle, node, path) ==
    IF node \notin DOMAIN obsOf THEN "false"          \* obs === undefined
    ELSE IF node \in path THEN "overflow"
    ELSE LET obs == obsOf[node]
             RECURSIVE scan(_)
             scan(i) ==
                 IF i > Len(obs) THEN "false"
                 ELSE LET r == findCycleFrom(obsOf, needle, obs[i],
                                             path \cup {node})
                      IN  IF r = "false" THEN scan(i + 1) ELSE r
         IN  IF node \in Elems(obs) THEN "true"       \* obs.indexOf(node)
             ELSE scan(1)

findCycle(obsOf, needle, node) == findCycleFrom(obsOf, needle, node, {})

\* ------------------------------------------- conditions of the protocol
StaleForwardsPostIncrement(n) == n - 1 = 1
StaleForwardsAlways(n) == TRUE
\* line 31: ++dependencyStaleCount === 1
StaleForwards(n) == n = 1

ReadyAllowedAlways(s) == TRUE
ReadyAllowedFromZero(s) == s >= 0
\* line 43: invariant(dependencyStaleCount > 0)
ReadyAllowed(s) == s > 0

ChangeCountIgnored(c, b) == c
\* lines 44-45: if (dependencyDidChange) dependencyChangeCount += 1
ChangeCountAfter(c, b) == IF b THEN c + 1 ELSE c

AllReadyAlways(s) == TRUE
\* line 46: --dependencyStaleCount === 0
AllReady(s) == s = 0

DidChangeAlways(c) == TRUE
\* line 48: dependencyChangeCount > 0
DidChange(c) == c > 0

\* ------------------------------------------------------------------ steps
\* notifyDependencyStale, lines 30-35
NotifyDependencyStale ==
    /\ Busy /\ Top.fn = "notifyDependencyStale"
    /\ LET d == Top.d
           n == dependencyStaleCount[d] + 1
           called == Event("notifyStale", d, FALSE, n,
                           dependencyChangeCount[d], <<>>)
       IN  /\ dependencyStaleCount' = [dependencyStaleCount EXCEPT ![d] = n]
           /\ IF StaleForwards(n)
              THEN /\ log' = log \o <<called,
                            Event("STALE", d, FALSE, n,
                                  dependencyChangeCount[d], <<>>),
                            Event("propagateStaleness", d, FALSE, n,
                                  dependencyChangeCount[d], <<>>)>>
                   /\ stack' = Replace(Frame("propagateStaleness", "loop", d,
                                             FALSE, observers[d], <<>>, 1))
              ELSE /\ log' = Append(log, called)
                   /\ stack' = Pop
    /\ UNCHANGED <<observing, observers, staleObservers,
                   dependencyChangeCount, derivationStack, ret, err, wave,
                   pre, result, allowStateChanges>>

\* propagateStaleness(observable): notifyDependencyStale on each observer,
\* which are then remembered as the observable's stale observers
PropagateStaleness ==
    /\ Busy /\ Top.fn = "propagateStaleness"
    /\ IF Top.i <= Len(Top.xs)
       THEN /\ stack' = Append(Replace([Top EXCEPT !.i = @ + 1]),
                               Frame("notifyDependencyStale", "entry",
                                     Top.xs[Top.i], FALSE, <<>>, <<>>, 1))
            /\ UNCHANGED staleObservers
       ELSE /\ staleObservers' =
                   [staleObservers EXCEPT ![Top.d] = @ \o Top.xs]
            /\ stack' = Pop
    /\ UNCHANGED <<observing, observers, dependencyStaleCount,
                   dependencyChangeCount, derivationStack, ret, err, log,
                   wave, pre, result, allowStateChanges>>

\* the frame of propagateReadiness(o, changed): the stale observers are taken
\* off the observable (splice) before they are notified
ReadinessFrame(o, changed) ==
    Frame("propagateReadiness", "loop", o, changed, staleObservers[o], <<>>, 1)

\* notifyDependencyReady, lines 42-46: the check, the two counters
NotifyDependencyReady ==
    /\ Busy /\ Top.fn = "notifyDependencyReady" /\ Top.pc = "entry"
    /\ LET d == Top.d
           c == ChangeCountAfter(dependencyChangeCount[d], Top.b)
           s == dependencyStaleCount[d] - 1
       IN  IF ~ReadyAllowed(dependencyStaleCount[d])
           THEN /\ Throw("ProtocolViolation")
                /\ UNCHANGED <<dependencyStaleCount, dependencyChangeCount,
                               log>>
           ELSE /\ dependencyChangeCount' =
                       [dependencyChangeCount EXCEPT ![d] = c]
                /\ dependencyStaleCount' =
                       [dependencyStaleCount EXCEPT ![d] = s]
                /\ log' = Append(log, Event("notifyReady", d, Top.b, s, c, <<>>))
                /\ stack' = IF AllReady(s)
                            THEN Replace([Top EXCEPT !.pc = "settled"])
                            ELSE Pop
                /\ UNCHANGED err
    /\ UNCHANGED <<observing, observers, staleObservers, derivationStack,
                   ret, wave, pre, result, allowStateChanges>>

\* notifyDependencyReady, lines 47-58: all dependencies are ready
DependenciesSettled ==
    /\ Busy /\ Top.fn = "notifyDependencyReady" /\ Top.pc = "settled"
    /\ LET d == Top.d
       IN  IF DidChange(dependencyChangeCount[d])
           THEN /\ dependencyChangeCount' =
                       [dependencyChangeCount EXCEPT ![d] = 0]
                /\ log' = Append(log, Event("PENDING", d, FALSE,
                                            dependencyStaleCount[d], 0, <<>>))
                /\ stack' = Append(Replace([Top EXCEPT !.pc = "forward"]),
                                   Frame("onDependenciesReady", "start", d,
                                         FALSE, <<>>, <<>>, 1))
                /\ UNCHANGED staleObservers
           ELSE /\ log' = log \o
                       <<Event("READY", d, FALSE, dependencyStaleCount[d],
                               dependencyChangeCount[d], <<>>),
                         Event("propagateReadiness", d, FALSE,
                               dependencyStaleCount[d],
                               dependencyChangeCount[d], <<>>)>>
                /\ stack' = Replace(ReadinessFrame(d, FALSE))
                /\ staleObservers' = [staleObservers EXCEPT ![d] = <<>>]
                /\ UNCHANGED dependencyChangeCount
    /\ UNCHANGED <<observing, observers, dependencyStaleCount,
                   derivationStack, ret, err, wave, pre, result,
                   allowStateChanges>>

\* notifyDependencyReady, line 53: propagateReadiness(derivation, changed)
ForwardReadiness ==
    /\ Busy /\ Top.fn = "notifyDependencyReady" /\ Top.pc = "forward"
    /\ log' = Append(log, Event("propagateReadiness", Top.d, ret,
                                dependencyStaleCount[Top.d],
                                dependencyChangeCount[Top.d], <<>>))
    /\ stack' = Replace(ReadinessFrame(Top.d, ret))
    /\ staleObservers' = [staleObservers EXCEPT ![Top.d] = <<>>]
    /\ UNCHANGED <<observing, observers, dependencyStaleCount,
                   dependencyChangeCount, derivationStack, ret, err, wave,
                   pre, result, allowStateChanges>>

\* propagateReadiness(observable, changed): notifyDependencyReady on each of
\* the derivations that were sent stale
PropagateReadiness ==
    /\ Busy /\ Top.fn = "propagateReadiness"
    /\ stack' = IF Top.i <= Len(Top.xs)
                THEN Append(Replace([Top EXCEPT !.i = @ + 1]),
                            Frame("notifyDependencyReady", "entry",
                                  Top.xs[Top.i], Top.b, <<>>, <<>>, 1))
                ELSE Pop
    /\ UNCHANGED <<observing, observers, staleObservers,
                   dependencyStaleCount, dependencyChangeCount,
                   derivationStack, ret, err, log, wave, pre, result,
                   allowStateChanges>>

\* onDependenciesReady(): the derivation re-runs its body through
\* trackDerivedFunction and reports whether its own output changed
OnDependenciesReady ==
    /\ Busy /\ Top.fn = "onDependenciesReady"
    /\ IF Top.pc = "start"
       THEN /\ stack' = Append(Replace([Top EXCEPT !.pc = "finish"]),
                               Frame("trackDerivedFunction", "entry", Top.d,
                                     FALSE, <<>>, <<>>, 1))
            /\ UNCHANGED ret
       ELSE /\ ret' \in BOOLEAN
            /\ stack' = Pop
    /\ UNCHANGED <<observing, observers, staleObservers,
                   dependencyStaleCount, dependencyChangeCount,
                   derivationStack, err, log, wave, pre, result,
                   allowStateChanges>>

\* trackDerivedFunction, lines 68-70: the old list is kept, the list is
\* cleared, the derivation is pushed on the evaluation stack
TrackDerivedFunction ==
    /\ Busy /\ Top.fn = "trackDerivedFunction" /\ Top.pc = "entry"
    /\ stack' = Replace([Top EXCEPT !.pc = "body", !.xs = observing[Top.d]])
    /\ observing' = [observing EXCEPT ![Top.d] = <<>>]
    /\ derivationStack' = Append(derivationStack, Top.d)
    /\ UNCHANGED <<observers, staleObservers, dependencyStaleCount,
                   dependencyChangeCount, ret, err, log, wave, pre, result,
                   allowStateChanges>>

\* trackDerivedFunction, line 71: f() runs; every source it reads appends
\* itself to the observing list of the derivation on top of the evaluation
\* stack.  r is the list of sources the body reads on this run.
RunBody(r) ==
    /\ Busy /\ Top.fn = "trackDerivedFunction" /\ Top.pc = "body"
    /\ observing' =
          [observing EXCEPT ![derivationStack[Len(derivationStack)]] = @ \o r]
    /\ log' = Append(log, Event("run", Top.d, FALSE,
                                dependencyStaleCount[Top.d],
                                dependencyChangeCount[Top.d], r))
    /\ stack' = Replace([Top EXCEPT !.pc = "bind"])
    /\ UNCHANGED <<observers, staleObservers, dependencyStaleCount,
                   dependencyChangeCount, derivationStack, ret, err, wave,
                   pre, result, allowStateChanges>>

\* a body that reads what it read on its last run
SameReads(d, prev) == {prev}

RunBodySame == Busy /\ \E r \in SameReads(Top.d, Top.xs) : RunBody(r)

\* bindDependencies, lines 77-79: the evaluation stack is popped and the new
\* list is diffed against the old one
BindDependencies ==
    /\ Busy /\ Top.fn = "trackDerivedFunction" /\ Top.pc = "bind"
    /\ derivationStack' = SubSeq(derivationStack, 1, Len(derivationStack) - 1)
    /\ stack' = Replace(Frame("bindDependencies", "add", Top.d, FALSE,
                              quickDiffAdded(observing[Top.d], Top.xs),
                              quickDiffRemoved(observing[Top.d], Top.xs), 1))
    /\ UNCHANGED <<observing, observers, staleObservers,
                   dependencyStaleCount, dependencyChangeCount, ret, err,
                   log, wave, pre, result, allowStateChanges>>

AdditionStopsEarly(i, added) == i < Len(added)
\* bindDependencies, line 81: the loop over the added dependencies goes on
AdditionPending(i, added) == i <= Len(added)

\* bindDependencies, lines 81-86: each added dependency is checked for a
\* cycle and then gets the derivation as an observer
BindAdded ==
    /\ Busy /\ Top.fn = "bindDependencies" /\ Top.pc = "add"
    /\ IF AdditionPending(Top.i, Top.xs)
       THEN LET dependency == Top.xs[Top.i]
                found == findCycle(observing, Top.d, dependency)
            IN  IF found = "false"
                THEN /\ observers' = addObserver(observers, dependency, Top.d)
                     /\ log' = Append(log, Event("addObserver", Top.d, FALSE,
                                                 0, 0, <<dependency>>))
                     /\ stack' = Replace([Top EXCEPT !.i = @ + 1])
                     /\ UNCHANGED err
                ELSE /\ Throw(IF found = "true" THEN "CycleDetected"
                              ELSE "RangeError")
                     /\ UNCHANGED <<observers, log>>
       ELSE /\ stack' = Replace([Top EXCEPT !.pc = "remove", !.i = 1])
            /\ UNCHANGED <<observers, log, err>>
    /\ UNCHANGED <<observing, staleObservers, dependencyStaleCount,
                   dependencyChangeCount, derivationStack, ret, wave, pre,
                   result, allowStateChanges>>

RemovalSkipped(i, removed) == FALSE
\* bindDependencies, line 89: the loop over the removed dependencies goes on
RemovalPending(i, removed) == i <= Len(removed)

\* bindDependencies, lines 89-90: the removed dependencies lose the observer
BindRemoved ==
    /\ Busy /\ Top.fn = "bindDependencies" /\ Top.pc = "remove"
    /\ IF RemovalPending(Top.i, Top.rm)
       THEN /\ observers' = removeObserver(observers, Top.rm[Top.i], Top.d)
            /\ log' = Append(log, Event("removeObserver", Top.d, FALSE, 0, 0,
                                        <<Top.rm[Top.i]>>))
            /\ stack' = Replace([Top EXCEPT !.i = @ + 1])
       ELSE /\ stack' = Pop
            /\ UNCHANGED <<observers, log>>
    /\ UNCHANGED <<observing, staleObservers, dependencyStaleCount,
                   dependencyChangeCount, derivationStack, ret, err, wave,
                   pre, result, allowStateChanges>>

\* ------------------------------------------------- the callers of the core
Snapshot ==
    [observing |-> observing, observers |-> observers,
     stale |-> dependencyStaleCount, change |-> dependencyChangeCount,
     derivationStack |-> derivationStack]

Idle == stack = <<>>

\* A source starts changing: the walker sends stale to its observers.  A
\* wave lasts while some source is mid-change; a source changes once a wave.
SourceStale(s) ==
    /\ Idle
    /\ s \notin wave.active
    /\ wave.active # {} => s \notin wave.done
    /\ wave' = [active |-> wave.active \cup {s},
                done |-> IF wave.active = {} THEN {s}
                         ELSE wave.done \cup {s}]
    /\ log' = Append(IF wave.active = {} THEN <<>> ELSE log,
                     Event("sourceStale", s, FALSE, 0, 0, <<>>))
    /\ stack' = <<Frame("propagateStaleness", "loop", s, FALSE,
                        observers[s], <<>>, 1)>>
    /\ err' = "none"
    /\ ret' = FALSE
    /\ pre' = Snapshot
    /\ UNCHANGED <<observing, observers, staleObservers,
                   dependencyStaleCount, dependencyChangeCount,
                   derivationStack, result, allowStateChanges>>

\* The source has its new value: the walker sends ready to the derivations
\* it sent stale to, with whether the value changed.
SourceReady(s, changed) ==
    /\ Idle
    /\ s \in wave.active
    /\ wave' = [wave EXCEPT !.active = @ \ {s}]
    /\ log' = Append(log, Event("sourceReady", s, changed, 0, 0, <<>>))
    /\ stack' = <<ReadinessFrame(s, changed)>>
    /\ staleObservers' = [staleObservers EXCEPT ![s] = <<>>]
    /\ err' = "none"
    /\ ret' = FALSE
    /\ pre' = Snapshot
    /\ UNCHANGED <<observing, observers, dependencyStaleCount,
                   dependencyChangeCount, derivationStack, result,
                   allowStateChanges>>

\* --------------------------------------------------------- initial states
\* graphs built bottom up: M1 and M2 read at most one leaf, D reads leaves
\* and M1, M2
LayeredGraphs ==
    {og \in [Derivs -> ListsUpTo(Nodes \ {"D"}, MaxReads)] :
        /\ og["M1"] \in ListsUpTo(Leaves, 1)
        /\ og["M2"] \in ListsUpTo(Leaves, 1)}

\* the observers of n in graph og, in any order (the order they subscribed)
ObserverOrders(og, n) == PermsOf({d \in Derivs : n \in Elems(og[d])})

InitCommon ==
    /\ staleObservers = [n \in Nodes |-> <<>>]
    /\ dependencyStaleCount = [d \in Derivs |-> 0]
    /\ dependencyChangeCount = [d \in Derivs |-> 0]
    /\ derivationStack = <<>>
    /\ stack = <<>>
    /\ ret = FALSE
    /\ err = "none"
    /\ log = <<>>
    /\ wave = [active |-> {}, done |-> {}]
    /\ result = "none"
    /\ allowStateChanges = TRUE

Init ==
    /\ observing \in LayeredGraphs
    /\ \E a \in ObserverOrders(observing, "A"),
          b \in ObserverOrders(observing, "B"),
          m1 \in ObserverOrders(observing, "M1"),
          m2 \in ObserverOrders(observing, "M2") :
          observers = [n \in Nodes |->
                          CASE n = "A" -> a [] n = "B" -> b
                            [] n = "M1" -> m1 [] n = "M2" -> m2
                            [] OTHER -> <<>>]
    /\ InitCommon
    /\ pre = Snapshot

\* waves over a graph whose bodies read the same sources every run
Next ==
    \/ \E s \in Leaves : SourceStale(s)
    \/ \E s \in Leaves, changed \in BOOLEAN : SourceReady(s, changed)
    \/ NotifyDependencyStale
    \/ PropagateStaleness
    \/ NotifyDependencyReady
    \/ DependenciesSettled
    \/ ForwardReadiness
    \/ PropagateReadiness
    \/ OnDependenciesReady
    \/ TrackDerivedFunction
    \/ RunBodySame
    \/ BindDependencies
    \/ BindAdded
    \/ BindRemoved

Spec == Init /\ [][Next]_vars

\* ------------------------------------ direct calls of the three entry points
\* the derivations and sources the direct calls work on
CallDerivs == {"M1", "D"}
CallNodes == {"A", "M1", "D"}

\* a body that may read any list of sources
AnyReads(d, prev) == ListsUpTo(CallNodes, MaxReads)

RunBodyAny == Busy /\ \E r \in AnyReads(Top.d, Top.xs) : RunBody(r)

Begin(call, frame) ==
    /\ Idle
    /\ log' = <<call>>
    /\ stack' = <<frame>>
    /\ err' = "none"
    /\ ret' = FALSE
    /\ pre' = Snapshot
    /\ UNCHANGED <<observing, observers, staleObservers,
                   dependencyStaleCount, dependencyChangeCount,
                   derivationStack, wave, result, allowStateChanges>>

\* a collaborator calls notifyDependencyStale(d)
CallNotifyStale(d) ==
    /\ \A e \in Derivs : /\ dependencyStaleCount[e] < MaxStale
                         /\ dependencyChangeCount[e] < MaxStale
    /\ \A n \in Nodes : Len(staleObservers[n]) < MaxObs
    /\ Begin(Event("callNotifyStale", d, FALSE, 0, 0, <<>>),
             Frame("notifyDependencyStale", "entry", d, FALSE, <<>>, <<>>, 1))

\* a collaborator calls notifyDependencyReady(d, changed)
CallNotifyReady(d, changed) ==
    /\ changed => dependencyChangeCount[d] < MaxStale
    /\ Begin(Event("callNotifyReady", d, changed, 0, 0, <<>>),
             Frame("notifyDependencyReady", "entry", d, changed, <<>>, <<>>, 1))

\* a derivation is run: trackDerivedFunction(d, f)
CallTrack(d) ==
    /\ \A n \in Nodes : Len(observers[n]) < MaxObs
    /\ Begin(Event("callTrack", d, FALSE, 0, 0, <<>>),
             Frame("trackDerivedFunction", "entry", d, FALSE, <<>>, <<>>, 1))

\* derivations are created with no dependencies and zero counters
InitCalls ==
    /\ observing = [d \in Derivs |-> <<>>]
    /\ observers = [n \in Nodes |-> <<>>]
    /\ InitCommon
    /\ pre = Snapshot

\* a body that reads what it read before, or only itself, or nothing
FewReads(d, prev) == {prev, <<d>>, <<>>}

RunBodyFew == Busy /\ \E r \in FewReads(Top.d, Top.xs) : RunBody(r)

\* M1 observes A; D observes A and M1
InitChain ==
    /\ observing = [d \in Derivs |->
                       CASE d = "M1" -> <<"A">>
                         [] d = "D" -> <<"A", "M1">>
                         [] OTHER -> <<>>]
    /\ observers = [n \in Nodes |->
                       CASE n = "A" -> <<"M1", "D">>
                         [] n = "M1" -> <<"D">>
                         [] OTHER -> <<>>]
    /\ InitCommon
    /\ pre = Snapshot

NextCalls ==
    \/ \E d \in CallDerivs : CallNotifyStale(d)
    \/ \E d \in CallDerivs, changed \in BOOLEAN : CallNotifyReady(d, changed)
    \/ \E d \in CallDerivs : CallTrack(d)
    \/ NotifyDependencyStale
    \/ PropagateStaleness
    \/ NotifyDependencyReady
    \/ DependenciesSettled
    \/ ForwardReadiness
    \/ PropagateReadiness
    \/ OnDependenciesReady
    \/ TrackDerivedFunction
    \/ RunBodyFew
    \/ BindDependencies
    \/ BindAdded
    \/ BindRemoved

SpecCalls == InitChain /\ [][NextCalls]_vars

\* runs of derivations only: the edges grow from the empty graph
NextBind ==
    \/ \E d \in CallDerivs : CallTrack(d)
    \/ TrackDerivedFunction
    \/ RunBodyAny
    \/ BindDependencies
    \/ BindAdded
    \/ BindRemoved

SpecBind == InitCalls /\ [][NextBind]_vars

\* ------------------------------------------- findCycle as a pure function
\* findCycle(needle, candidate) is applied once to a graph drawn from the
\* bounded graphs over CallNodes (cyclic ones included)
ApplyFindCycle(needle, candidate) ==
    /\ Idle /\ result = "none"
    /\ result' = findCycle(observing, needle, candidate)
    /\ log' = <<Event("findCycle", needle, FALSE, 0, 0, <<candidate>>)>>
    /\ UNCHANGED <<observing, observers, staleObservers,
                   dependencyStaleCount, dependencyChangeCount,
                   derivationStack, stack, ret, err, wave, pre,
                   allowStateChanges>>

InitCycle ==
    /\ observing \in [Derivs -> ListsUpTo(CallNodes, MaxReads)]
    /\ observing["M2"] = <<>>
    /\ observers = [n \in Nodes |-> <<>>]
    /\ InitCommon
    /\ pre = Snapshot

NextCycle ==
    \E needle \in CallDerivs, candidate \in CallNodes :
        ApplyFindCycle(needle, candidate)

SpecCycle == InitCycle /\ [][NextCycle]_vars

\* --------------------------------------------------- the evaluation context
\* bound on the depth of the evaluation stack
MaxDepth == 2

\* isComputingDerivation, lines 19-21
isComputingDerivation == Len(derivationStack) > 0

\* checkIfStateModificationsAreAllowed, line 24: the condition of the
\* invariant(...)
StateModificationsAllowed(allow) == allow

\* code outside every derivation is about to write state and calls the guard
CheckIfStateModificationsAreAllowed ==
    /\ Idle
    /\ log' = <<Event("check", "none", allowStateChanges, 0, 0,
                      derivationStack)>>
    /\ err' = IF StateModificationsAllowed(allowStateChanges)
              THEN "none" ELSE "IllegalMutation"
    /\ ret' = FALSE
    /\ pre' = Snapshot
    /\ UNCHANGED <<observing, observers, staleObservers,
                   dependencyStaleCount, dependencyChangeCount,
                   derivationStack, stack, wave, result, allowStateChanges>>

\* trackDerivedFunction, line 71: the body f() writes state, so the guard is
\* called while the derivation is on the evaluation stack; when it fails, f()
\* fails and line 72 is not reached
BodyWrites ==
    /\ Busy /\ Top.fn = "trackDerivedFunction" /\ Top.pc = "body"
    /\ \A i \in 1..Len(log) : log[i].ev # "check"
    /\ log' = Append(log, Event("check", Top.d, allowStateChanges, 0, 0,
                                derivationStack))
    /\ IF StateModificationsAllowed(allowStateChanges)
       THEN UNCHANGED <<stack, err>>
       ELSE Throw("IllegalMutation")
    /\ UNCHANGED <<observing, observers, staleObservers,
                   dependencyStaleCount, dependencyChangeCount,
                   derivationStack, ret, wave, pre, result,
                   allowStateChanges>>

\* trackDerivedFunction, line 71: the body f() fails; nothing catches the
\* exception, so line 72 is not reached
BodyThrows ==
    /\ Busy /\ Top.fn = "trackDerivedFunction" /\ Top.pc = "body"
    /\ Throw("BodyFailure")
    /\ log' = Append(log, Event("throw", Top.d, FALSE, 0, 0, <<>>))
    /\ UNCHANGED <<observing, observers, staleObservers,
                   dependencyStaleCount, dependencyChangeCount,
                   derivationStack, ret, wave, pre, result,
                   allowStateChanges>>

\* trackDerivedFunction, line 71: the body reads the computed value e, which
\* records itself in the list of the derivation on top of the evaluation
\* stack and is evaluated one level deeper
BodyReadsComputed(e) ==
    /\ Busy /\ Top.fn = "trackDerivedFunction" /\ Top.pc = "body"
    /\ Len(derivationStack) < MaxDepth
    /\ e \notin Elems(derivationStack)
    /\ e \notin Elems(observing[Top.d])
    /\ observing' =
          [observing EXCEPT ![derivationStack[Len(derivationStack)]] =
                                Append(@, e)]
    /\ stack' = Append(stack, Frame("trackDerivedFunction", "entry", e,
                                    FALSE, <<>>, <<>>, 1))
    /\ log' = Append(log, Event("read", Top.d, FALSE, 0, 0, <<e>>))
    /\ UNCHANGED <<observers, staleObservers, dependencyStaleCount,
                   dependencyChangeCount, derivationStack, ret, err, wave,
                   pre, result, allowStateChanges>>

\* the scoped override of the flag: allowStateChanges(b, block) sets the flag
\* on entry and sets it back on exit
AllowStateChanges(b) ==
    /\ allowStateChanges # b
    /\ \/ /\ Idle
          /\ log' = <<Event("allowStateChanges", "none", b, 0, 0, <<>>)>>
       \/ /\ Busy /\ Top.fn = "trackDerivedFunction" /\ Top.pc = "body"
          /\ log[Len(log)].ev # "allowStateChanges"
          /\ log' = Append(log, Event("allowStateChanges", Top.d, b, 0, 0,
                                      <<>>))
    /\ allowStateChanges' = b
    /\ UNCHANGED <<observing, observers, staleObservers,
                   dependencyStaleCount, dependencyChangeCount,
                   derivationStack, stack, ret, err, wave, pre, result>>

\* a body that reads what it read before, or only itself, or nothing, and
\* reads no source twice
RunBodyOnce ==
    /\ Busy
    /\ \E r \in FewReads(Top.d, Top.xs) :
          /\ Elems(r) \cap Elems(observing[Top.d]) = {}
          /\ RunBody(r)

\* a derivation is run while the evaluation stack is within the bound
BoundedCallTrack(d) == Len(derivationStack) < MaxDepth /\ CallTrack(d)

\* runs of derivations, nested and failing, with writes guarded by the flag
NextEval ==
    \/ \E d \in CallDerivs : BoundedCallTrack(d)
    \/ TrackDerivedFunction
    \/ RunBodyOnce
    \/ BodyWrites
    \/ BodyThrows
    \/ \E e \in CallDerivs : BodyReadsComputed(e)
    \/ BindDependencies
    \/ BindAdded
    \/ BindRemoved
    \/ CheckIfStateModificationsAreAllowed
    \/ \E b \in BOOLEAN : AllowStateChanges(b)

SpecEval == InitCalls /\ [][NextEval]_vars


\* ------------------------------------------------ conditional dependencies
\* a body that reads A when its flag is true and B otherwise; the flag may
\* have flipped between any two runs
CondReads(d, prev) == {<<"A">>, <<"B">>}

RunBodyCond == Busy /\ \E r \in CondReads(Top.d, Top.xs) : RunBody(r)

\* runs and re-runs of derivations with such a body
NextCond ==
    \/ \E d \in CallDerivs : CallTrack(d)
    \/ TrackDerivedFunction
    \/ RunBodyCond
    \/ BindDependencies
    \/ BindAdded
    \/ BindRemoved

SpecCond == InitCalls /\ [][NextCond]_vars

\* ---------------------------------------------- waves over changing edges
\* the nodes a re-run body may read
WaveNodes == {"A", "B", "M1", "D"}

\* a body that reads what it read on its last run, or stops reading the
\* first of these, or reads one more source
WaveReads(d, prev) ==
    {prev}
      \cup {Tail(prev) : x \in Elems(prev)}
      \cup {Append(prev, x) : x \in {y \in WaveNodes \ Elems(prev) :
                                        Len(prev) < MaxReads}}

RunBodyWave == Busy /\ \E r \in WaveReads(Top.d, Top.xs) : RunBody(r)

\* M1 reads one leaf; D reads a leaf or M1
WaveGraphs ==
    {og \in [Derivs -> ListsUpTo(Nodes, 1)] :
        /\ og["M1"] \in {<<"A">>, <<"B">>}
        /\ og["M2"] = <<>>
        /\ og["D"] \in {<<"A">>, <<"M1">>}}

InitWave ==
    /\ observing \in WaveGraphs
    /\ observers = [n \in Nodes |->
                       (IF n \in Elems(observing["M1"]) THEN <<"M1">>
                        ELSE <<>>)
                          \o (IF n \in Elems(observing["D"]) THEN <<"D">>
                              ELSE <<>>)]
    /\ InitCommon
    /\ pre = Snapshot

\* the counters and lists a failed wave leaves behind stay within the bounds
WaveBounded ==
    /\ \A e \in Derivs : /\ dependencyStaleCount[e] < MaxStale
                         /\ dependencyChangeCount[e] < MaxStale
    /\ \A n \in Nodes : /\ Len(staleObservers[n]) < MaxObs
                        /\ Len(observers[n]) <= MaxObs

\* a source starts changing, within the bounds
BoundedSourceStale(s) == WaveBounded /\ SourceStale(s)

NextWave ==
    \/ \E s \in Leaves : BoundedSourceStale(s)
    \/ \E s \in Leaves, changed \in BOOLEAN : SourceReady(s, changed)
    \/ NotifyDependencyStale
    \/ PropagateStaleness
    \/ NotifyDependencyReady
    \/ DependenciesSettled
    \/ ForwardReadiness
    \/ PropagateReadiness
    \/ OnDependenciesReady
    \/ TrackDerivedFunction
    \/ RunBodyWave
    \/ BindDependencies
    \/ BindAdded
    \/ BindRemoved

SpecWave == InitWave /\ [][NextWave]_vars

\* ------------------------------------------------- the runs of one derivation
\* D is run again and again; its body may read any list of sources, D's own
\* value included
NextOrder ==
    \/ CallTrack("D")
    \/ TrackDerivedFunction
    \/ RunBodyAny
    \/ BindDependencies
    \/ BindAdded
    \/ BindRemoved

SpecOrder == InitCalls /\ [][NextOrder]_vars

\* ===================================================================
\* Properties.  The log holds the events of the current wave (Spec) or of
\* the current call (SpecCalls, SpecBind).
\* ===================================================================
EvCount(ev, d) ==
    Cardinality({i \in 1..Len(log) : log[i].ev = ev /\ log[i].d = d})
EvCountB(ev, d, b) ==
    Cardinality({i \in 1..Len(log) :
                    log[i].ev = ev /\ log[i].d = d /\ log[i].b = b})
Runs(d) == EvCount("run", d)

\* the wave is over: every source that went stale has gone ready and the
\* walker has returned
WaveDone == Idle /\ wave.active = {} /\ log # <<>>

\* S = A, M1 and M2 observe A, D observes M1 and M2
Diamond ==
    /\ observing["M1"] = <<"A">>
    /\ observing["M2"] = <<"A">>
    /\ Elems(observing["D"]) = {"M1", "M2"}

\* the wave was triggered by A alone
OnlyAChanges ==
    /\ log # <<>>
    /\ Cardinality({i \in 1..Len(log) : log[i].ev = "sourceStale"}) = 1
    /\ log[1] = Event("sourceStale", "A", FALSE, 0, 0, <<>>)

\* C1 as stated: in the diamond, one wave triggered by a change of A makes
\* D's body run exactly once.
C1_DiamondExactlyOnce ==
    (Diamond /\ OnlyAChanges /\ WaveDone /\ EvCountB("sourceReady", "A", TRUE) = 1)
        => Runs("D") = 1

\* C1 amended: in the diamond, in one wave triggered by a change of A, D's
\* body never runs twice, whichever of M1 and M2 the walker visits first;
\* when the wave is over it has run exactly once if M1 or M2 reported that
\* its output changed, and not at all if neither did.
C1_DiamondAtMostOnce ==
    (Diamond /\ OnlyAChanges) =>
        /\ Runs("D") <= 1
        /\ (WaveDone /\ EvCountB("sourceReady", "A", TRUE) = 1) =>
              (Runs("D") = 1 <=>
                  \E m \in {"M1", "M2"} :
                      EvCountB("propagateReadiness", m, TRUE) > 0)

C1_Witness ==
    /\ Diamond /\ OnlyAChanges /\ WaveDone
    /\ EvCountB("sourceReady", "A", TRUE) = 1
    /\ observers["A"] = <<"M2", "M1">>
    /\ EvCount("notifyReady", "D") = 2
    /\ Runs("D") = 1

\* C2: a derivation that gets two or more stale notifications in one wave
\* runs its body at most once in that wave; the run comes after every stale
\* and ready notification it gets in the wave (it is on the last ready), and
\* when the wave is over it has run exactly if one of its readies carried
\* sourceChanged = true.  The order of the sources' stale/ready pairs is free.
C2_CoalescedRun ==
    \A d \in Derivs :
        EvCount("notifyStale", d) >= 2 =>
            /\ Runs(d) <= 1
            /\ \A k \in 1..Len(log) :
                  (log[k].ev = "run" /\ log[k].d = d) =>
                      /\ \A j \in (k + 1)..Len(log) :
                            ~(log[j].d = d /\
                              log[j].ev \in {"notifyStale", "notifyReady"})
                      /\ EvCount("notifyReady", d) = EvCount("notifyStale", d)
            /\ WaveDone =>
                  (Runs(d) = 1 <=> EvCountB("notifyReady", d, TRUE) > 0)

C2_Witness ==
    /\ WaveDone
    /\ Elems(observing["D"]) = {"A", "B"}
    /\ log[1].d = "B"
    /\ EvCount("notifyStale", "D") = 2
    /\ EvCountB("notifyReady", "D", FALSE) = 1
    /\ EvCountB("notifyReady", "D", TRUE) = 1
    /\ log[Len(log) - 3].ev = "notifyReady" /\ log[Len(log) - 3].b = FALSE
    /\ Runs("D") = 1

\* C3: in a wave whose sources all report changed = false, no body runs, and
\* when the wave is over every derivation the stale walk reached has emitted
\* exactly one READY(false) transition and forwarded readiness exactly once,
\* with changed = false.
C3_NoOpWave ==
    (\A k \in 1..Len(log) : log[k].ev = "sourceReady" => ~log[k].b) =>
        /\ \A d \in Derivs : Runs(d) = 0 /\ EvCount("PENDING", d) = 0
        /\ WaveDone =>
              \A d \in Derivs :
                  EvCount("notifyStale", d) > 0 =>
                      /\ EvCountB("READY", d, FALSE) = 1
                      /\ EvCountB("propagateReadiness", d, FALSE) = 1
                      /\ EvCountB("propagateReadiness", d, TRUE) = 0

C3_Witness ==
    /\ Diamond /\ OnlyAChanges /\ WaveDone
    /\ EvCountB("sourceReady", "A", FALSE) = 1
    /\ EvCount("notifyStale", "D") = 2
    /\ EvCountB("READY", "D", FALSE) = 1
    /\ EvCountB("READY", "M1", FALSE) = 1

\* the notifications D got in this wave, in order
NotificationsOf(d) ==
    SelectSeq(log, LAMBDA e : e.d = d /\ e.ev \in {"notifyStale", "notifyReady"})

BothChanged ==
    /\ Elems(observing["D"]) = {"A", "B"}
    /\ WaveDone
    /\ \A s \in Leaves : EvCountB("sourceReady", s, TRUE) = 1

\* C4: D observes A and B, both change in one wave.  D gets notifyStale,
\* notifyStale, notifyReady(true), notifyReady(true); dependencyStaleCount
\* goes 1, 2, 1, 0; dependencyChangeCount is 1 after the first ready (and 2
\* after the second, before the reset) and 0 at the end; the body runs once,
\* after the second ready; one STALE, one PENDING, one forwarding of
\* readiness.
C4_CountsScenario ==
    BothChanged =>
        LET ns == NotificationsOf("D")
        IN  /\ Len(ns) = 4
            /\ [i \in 1..4 |-> ns[i].ev] =
                  <<"notifyStale", "notifyStale", "notifyReady", "notifyReady">>
            /\ [i \in 1..4 |-> ns[i].s] = <<1, 2, 1, 0>>
            /\ ns[3].b /\ ns[4].b
            /\ ns[3].c = 1
            /\ ns[4].c = 2
            /\ dependencyChangeCount["D"] = 0
            /\ dependencyStaleCount["D"] = 0
            /\ Runs("D") = 1
            /\ \E k \in 1..Len(log) :
                  /\ log[k] = ns[4]
                  /\ \E j \in (k + 1)..Len(log) :
                        log[j].ev = "run" /\ log[j].d = "D"
            /\ EvCount("STALE", "D") = 1
            /\ EvCount("PENDING", "D") = 1
            /\ EvCount("propagateReadiness", "D") = 1

C4_Witness ==
    /\ BothChanged
    /\ Runs("D") = 1
    /\ Len(NotificationsOf("D")) = 4

\* ---------------------------------------------------------- SpecCalls
\* C5: a notifyDependencyReady that finds dependencyStaleCount = 0 throws
\* ProtocolViolation, whatever sourceChanged is, and changes nothing: both
\* counters, the edges and the log (no transition, no run, no forwarding)
\* stay as they are.
C5_Underflow ==
    [][(/\ Busy /\ Top.fn = "notifyDependencyReady" /\ Top.pc = "entry"
        /\ dependencyStaleCount[Top.d] = 0)
          => /\ err' = "ProtocolViolation"
             /\ stack' = <<>>
             /\ UNCHANGED <<dependencyStaleCount, dependencyChangeCount, log,
                            observing, observers, staleObservers,
                            derivationStack>>]_vars

C5_Witness ==
    /\ Idle /\ err = "ProtocolViolation"
    /\ log = <<Event("callNotifyReady", "D", TRUE, 0, 0, <<>>)>>
    /\ dependencyStaleCount["D"] = 0
    /\ dependencyChangeCount["D"] = 0

\* C6: both counters of every derivation are >= 0 in every state reached by
\* any sequence of stale, ready (passing or failing) and run calls.
C6_CountsNonNegative ==
    \A d \in Derivs :
        dependencyStaleCount[d] >= 0 /\ dependencyChangeCount[d] >= 0

C6_Witness ==
    /\ Idle /\ err = "ProtocolViolation"
    /\ log[1].ev = "callNotifyReady" /\ log[1].d = "M1"
    /\ dependencyStaleCount["M1"] = 0
    /\ dependencyStaleCount["D"] > 0
    /\ observing["D"] = <<"D">>

\* ----------------------------------------------------------- SpecBind
Successors(og, S) ==
    {n \in Nodes : \E m \in S \cap DOMAIN og : n \in Elems(og[m])}

RECURSIVE Closure(_, _)
Closure(og, S) ==
    LET T == S \cup Successors(og, S)
    IN  IF T = S THEN S ELSE Closure(og, T)

\* `to` is reached from `from` along one or more observing edges; a leaf has
\* no observing list and reaches nothing
Reachable(og, from, to) == to \in Closure(og, Successors(og, {from}))

\* a run of d, called directly, has returned or failed
RunEnded(d) ==
    /\ Idle /\ log # <<>>
    /\ log[1] = Event("callTrack", d, FALSE, 0, 0, <<>>)

\* what that run read
ReadsOfRun(d) ==
    UNION {Elems(log[k].xs) :
              k \in {j \in 1..Len(log) : log[j].ev = "run" /\ log[j].d = d}}

\* C7 as stated: a run of d that reads d itself fails with CycleDetected and
\* leaves d.observing and every observers list as they were before the run.
C7_SelfReferenceRejected ==
    \A d \in Derivs :
        (RunEnded(d) /\ d \in ReadsOfRun(d)) =>
            /\ err = "CycleDetected"
            /\ observing[d] = pre.observing[d]
            /\ observers = pre.observers

\* the list captured by the run of d holds no path back to d
NoPathBack(d) ==
    \A s \in Elems(observing[d]) : s # d /\ ~Reachable(observing, s, d)

\* C8 as stated: when the list captured by a run of d holds no path back to
\* d, findCycle(d, s) is false for every s in it and the bind ends without
\* CycleDetected.
C8_NoFalsePositive ==
    /\ (Busy /\ Top.fn = "bindDependencies" /\ NoPathBack(Top.d)) =>
          \A s \in Elems(observing[Top.d]) :
              findCycle(observing, Top.d, s) = "false"
    /\ \A d \in Derivs : (RunEnded(d) /\ NoPathBack(d)) => err = "none"

\* C9 as stated: when a run of d newly reads a derivation c from which d is
\* reached along observing edges, the bind fails with CycleDetected and d is
\* not added to c's observers.
C9_TransitiveCycleRejected ==
    \A d \in Derivs, c \in Derivs :
        (/\ RunEnded(d) /\ c # d
         /\ c \in ReadsOfRun(d) /\ c \notin Elems(pre.observing[d])
         /\ Reachable(pre.observing, c, d)) =>
            /\ err = "CycleDetected"
            /\ observers[c] = pre.observers[c]

\* ---------------------------------------------------------- SpecCycle
\* C10 as stated: findCycle(needle, candidate) returns, and returns true
\* exactly when needle is reached from candidate along observing edges.
C10_FindCycleIsReachability ==
    result # "none" =>
        result = IF Reachable(observing, log[1].xs[1], log[1].d)
                 THEN "true" ELSE "false"

\* the guard has just been called: the last event is the call, with the
\* flag and the evaluation stack as they were when it was called
CheckDone == log # <<>> /\ log[Len(log)].ev = "check"

\* C11: checkIfStateModificationsAreAllowed fails with IllegalMutation
\* exactly when the evaluation stack is non-empty and the flag is false, and
\* succeeds in every other state; it changes neither the stack nor the flag.
C11_MutationGuard ==
    CheckDone =>
        LET e == log[Len(log)]
        IN  /\ (err = "IllegalMutation") <=> (e.xs # <<>> /\ ~e.b)
            /\ derivationStack = e.xs
            /\ allowStateChanges = e.b

\* the number of times d is in the observers list of n
Subscriptions(n, d) ==
    Cardinality({i \in 1..Len(observers[n]) : observers[n][i] = d})

\* a run of d has returned without failing
RunSucceeded(d) == RunEnded(d) /\ err = "none"

\* C12: after every successful run of a derivation whose body reads A when
\* a flag is true and B otherwise, the derivation observes exactly the one it
\* read on that run and is an observer of that one and not of the other,
\* whatever it read on the runs before.
C12_ConditionalDependency ==
    \A d \in CallDerivs, x \in Leaves :
        (RunSucceeded(d) /\ ReadsOfRun(d) = {x}) =>
            /\ observing[d] = <<x>>
            /\ Subscriptions(x, d) = 1
            /\ \A y \in Leaves \ {x} : Subscriptions(y, d) = 0

\* a run that read B has returned, and the run before it had read A
C12_Witness ==
    /\ RunSucceeded("D") /\ ReadsOfRun("D") = {"B"}
    /\ pre.observing["D"] = <<"A">>
    /\ Subscriptions("B", "D") = 1

\* C13: once every source of a wave has gone ready and the walker's ready
\* propagation has returned or failed, every derivation has
\* dependencyStaleCount = 0 again, also when a re-run's bind failed.
C13_NoPermanentlyStale ==
    WaveDone => \A d \in Derivs : dependencyStaleCount[d] = 0

\* the step is notifyDependencyStale(d)
StaleStep(d) == Busy /\ Top.fn = "notifyDependencyStale" /\ Top.d = d

\* what the step adds to the log
Logged == SubSeq(log', Len(log) + 1, Len(log'))

\* C14: notifyDependencyStale(d) adds one to d's dependencyStaleCount and
\* changes no other field; it reports STALE and calls propagateStaleness(d)
\* exactly when the count went 0 -> 1, and does neither when the count was
\* already above 0.  Hence propagateStaleness(d) is called at most once in a
\* wave.
C14_StaleForwardedOnce ==
    /\ [][\A d \in Derivs : StaleStep(d) =>
            /\ dependencyStaleCount' =
                  [dependencyStaleCount EXCEPT ![d] = @ + 1]
            /\ UNCHANGED <<observing, observers, staleObservers,
                           dependencyChangeCount, derivationStack,
                           allowStateChanges, err>>
            /\ IF dependencyStaleCount[d] = 0
               THEN /\ [k \in 1..Len(Logged) |-> Logged[k].ev] =
                          <<"notifyStale", "STALE", "propagateStaleness">>
                    /\ \A k \in 1..Len(Logged) : Logged[k].d = d
                    /\ Len(stack') = Len(stack)
                    /\ stack'[Len(stack')].fn = "propagateStaleness"
                    /\ stack'[Len(stack')].d = d
                    /\ stack'[Len(stack')].xs = observers[d]
               ELSE /\ [k \in 1..Len(Logged) |-> Logged[k].ev] =
                          <<"notifyStale">>
                    /\ stack' = Pop]_vars
    /\ [](\A d \in Derivs : EvCount("propagateStaleness", d) <= 1)

\* D was sent stale twice in one wave and forwarded the first one only
C14_Witness ==
    /\ \E i, j \in 1..Len(log) :
          /\ i < j
          /\ log[i].ev = "notifyStale" /\ log[i].d = "D" /\ log[i].s = 1
          /\ log[j].ev = "notifyStale" /\ log[j].d = "D" /\ log[j].s = 2
    /\ EvCount("propagateStaleness", "D") = 1
    /\ EvCount("STALE", "D") = 1

\* the positions of the log's events named ev
EventsAt(ev) == {i \in 1..Len(log) : log[i].ev = ev}

\* the list the bind of the current call of trackDerivedFunction(d) adds:
\* what the body read and the derivation did not observe before the call
AddedBy(d) ==
    LET runs == {i \in EventsAt("run") : log[i].d = d}
    IN  IF runs = {} THEN <<>>
        ELSE quickDiffAdded(log[CHOOSE i \in runs : TRUE].xs,
                            pre.observing[d])

\* the dependencies the bind has installed so far, in the order installed
IsAddObserver(e) == e.ev = "addObserver"

Installed ==
    LET evs == SelectSeq(log, IsAddObserver)
    IN  [k \in 1..Len(evs) |-> evs[k].xs[1]]

\* C15: in the bind of a run, no removeObserver happens before every added
\* dependency has been checked and installed; when the check of an added
\* dependency fails, no dependency is removed and no later added one is
\* installed: the observers are as before the run but for the ones added
\* before the failing one.
C15_AdditionsBeforeRemovals ==
    \A d \in CallDerivs :
        (log # <<>> /\ log[1] = Event("callTrack", d, FALSE, 0, 0, <<>>)) =>
            /\ \A i, j \in 1..Len(log) :
                  (log[i].ev = "removeObserver" /\ log[j].ev = "addObserver")
                     => j < i
            /\ EventsAt("removeObserver") # {} => Installed = AddedBy(d)
            /\ (Idle /\ err # "none") =>
                  /\ EventsAt("removeObserver") = {}
                  /\ Len(Installed) < Len(AddedBy(d))
                  /\ Installed = SubSeq(AddedBy(d), 1, Len(Installed))
                  /\ \A n \in Nodes :
                        observers[n] =
                           IF n \in Elems(Installed)
                           THEN Append(pre.observers[n], d)
                           ELSE pre.observers[n]

\* a run of D has failed on its second added dependency: the first one is
\* installed, and a dependency the body no longer read is still subscribed
C15_Witness ==
    /\ RunEnded("D") /\ err = "CycleDetected"
    /\ Len(Installed) = 1 /\ Len(AddedBy("D")) = 2
    /\ \E x \in Elems(pre.observing["D"]) \ ReadsOfRun("D") :
          Subscriptions(x, "D") > 0

\* the body of a run has just finished: the last event is the run, with
\* what it read
BodyDone ==
    /\ Busy /\ Top.fn = "trackDerivedFunction" /\ Top.pc = "bind"
    /\ log[Len(log)].ev = "run"

\* C16: a body started by onDependenciesReady runs in a state where the
\* derivation's own dependencyStaleCount is 0 and no source it reads in that
\* run is a derivation with dependencyStaleCount > 0, also when the run reads
\* a source it did not observe before.
C16_NoPartiallyUpdatedWorld ==
    BodyDone =>
        /\ dependencyStaleCount[Top.d] = 0
        /\ \A x \in Elems(log[Len(log)].xs) \cap Derivs :
              dependencyStaleCount[x] = 0

\* the source is mid-change: a leaf that has sent stale and not yet ready in
\* the current wave, or a derivation that is itself stale
MidChange(n) ==
    IF n \in Derivs THEN dependencyStaleCount[n] > 0 ELSE n \in wave.active

\* C17: between the calls of the walker, the dependencyStaleCount of every
\* derivation is the number of the sources in its observing list that are
\* mid-change, also when a bind has added or removed edges during the wave;
\* and no ready reaches a derivation whose count is 0.
C17_StaleCountMatchesGraph ==
    /\ Idle =>
          \A d \in Derivs :
              dependencyStaleCount[d] =
                  Cardinality({n \in Elems(observing[d]) : MidChange(n)})
    /\ err # "ProtocolViolation"

\* the body of the innermost run is executing
InBody == Busy /\ Top.fn = "trackDerivedFunction" /\ Top.pc = "body"

\* C18: while the body of trackDerivedFunction(d, f) runs, d is the top of
\* the evaluation stack; when the call has returned or failed (in the body or
\* with CycleDetected in the bind) the stack is what it was before the call;
\* so isComputingDerivation() is false whenever no run is in progress.
C18_NestedEvaluationStack ==
    /\ InBody =>
          /\ derivationStack # <<>>
          /\ derivationStack[Len(derivationStack)] = Top.d
    /\ \A d \in CallDerivs :
          RunEnded(d) => derivationStack = pre.derivationStack
    /\ Idle => ~isComputingDerivation

\* C19: whenever no run is in progress, d is in the observers of s exactly
\* when s is in the observing list of d, after any sequence of runs that
\* returned or failed with CycleDetected.
C19_EdgeConsistency ==
    Idle =>
        \A d \in Derivs, s \in Nodes :
            (d \in Elems(observers[s])) <=> (s \in Elems(observing[d]))

\* a notifyDependencyReady(d) is between its decrement (line 46) and its
\* reset (line 50)
Settling(d) ==
    \E k \in 1..Len(stack) :
        /\ stack[k].fn = "notifyDependencyReady"
        /\ stack[k].pc = "settled"
        /\ stack[k].d = d

\* every ready the walker sent in this wave said the source did not change
NoSourceChanged == \A i \in EventsAt("sourceReady") : ~log[i].b

\* C20: whenever the dependencyStaleCount of a derivation is 0 and no
\* notifyDependencyReady on it is between its decrement and its reset, its
\* dependencyChangeCount is 0; so in a wave whose readies all say unchanged
\* no body runs, whatever changed in the waves before.
C20_NoChangeLeaks ==
    /\ \A d \in Derivs :
          (dependencyStaleCount[d] = 0 /\ ~Settling(d)) =>
              dependencyChangeCount[d] = 0
    /\ NoSourceChanged => \A d \in Derivs : Runs(d) = 0

=============================================================================
